---- MODULE Spec2Model ----
(***************************************************************************)
(* RenEx swap negotiation (src/src/swaps/service.py) over the listings and *)
(* swaps tables.  Every service call runs in its own database session      *)
(* (src/src/database/setup.py), so a call is a sequence of SQL statements  *)
(* against the committed tables; the position of each call in flight is    *)
(* kept in req.  Volumes are whole numbers, timestamps are "set or null".  *)
(***************************************************************************)
EXTENDS Integers, FiniteSets, Sequences, TLC

\* ------------------------------------------------------------- bounds
MaxSwaps == 2
MaxVolume == 2
MaxTime == 3
MaxExp == 1
MaxTokens == 2

\* ------------------------------------------------- program constants
HTTP_200_OK == 200
HTTP_201_CREATED == 201
HTTP_400_BAD_REQUEST == 400
HTTP_401_UNAUTHORIZED == 401
HTTP_404_NOT_FOUND == 404
HTTP_500_INTERNAL_SERVER_ERROR == 500

\* timedelta(days=1) in the unit of timedelta(minutes=1)
MinutesPerDay == 1440

\* SwapStatus
PENDING == "pending"
ACCEPTED == "accepted"
REJECTED == "rejected"
COMPLETED == "completed"
CANCELLED == "cancelled"
SwapStatus == {PENDING, ACCEPTED, REJECTED, COMPLETED, CANCELLED}

\* --------------------------------------------------------- universes
\* u1 owns the listings, u2 proposes against them, u3 is party to no swap.
Users == {"u1", "u2", "u3"}
Proposers == {"u1", "u2"}
SwapIds == 1..MaxSwaps
ListingIds == {1, 2, 3}
Volumes == 1..(MaxVolume + 1)
Reqs == {1, 2}
SerialReqs == {1}

VARIABLES
    listings,   \* the listings table: id -> row, for the ids that exist
    swaps,      \* the swaps table: id -> row, for the ids that exist
    req,        \* per client connection: the call in flight or its response
    settings,   \* the Settings read from the environment at start
    pyjwt,      \* the release line of the installed PyJWT
    clock,      \* the current time, in minutes
    users,      \* the users table: id -> row
    issued,     \* the tokens minted so far, each with the kind it was minted as
    call        \* the last call made to the token functions, with its result

swapVars == <<listings, swaps, req>>

authVars == <<settings, pyjwt, clock, users, issued, call>>

vars == <<listings, swaps, req, settings, pyjwt, clock, users, issued, call>>

Max(a, b) == IF a >= b THEN a ELSE b

\* --------------------------------------------------- password hasher

\* The plaintexts callers send; the last one is longer than passlib's
\* MAX_PASSWORD_SIZE, which hash and verify refuse with PasswordSizeError.
Plaintexts == {"pw1", "pw2", "oversized"}

Oversized == {"oversized"}

\* UserCreateRequest.password has max_length=64; LoginRequest.password has no
\* bound.
SignupPasswords == Plaintexts \ Oversized

\* The salts argon2 draws.
Salts == {"s1", "s2"}

\* The argon2 checksum of a secret under a salt: a value that only the same
\* secret and the same salt give again.
Argon2(secret, salt) == <<secret, salt>>

\* An encoded argon2 hash: scheme prefix, salt, checksum.
Digest(secret, salt) ==
    [scheme |-> "argon2", salt |-> salt, checksum |-> Argon2(secret, salt)]

\* Strings that are no argon2 hash: one no scheme of the context claims, and
\* one with the argon2 prefix and a broken rest.
NotADigest == [scheme |-> "unknown", salt |-> "none", checksum |-> << >>]

BrokenDigest == [scheme |-> "argon2", salt |-> "none", checksum |-> << >>]

MalformedDigests == {NotADigest, BrokenDigest}

Digests ==
    {Digest(p, s) : p \in SignupPasswords, s \in Salts} \cup MalformedDigests

\* get_password_hash: pwd_context.hash(password) with a salt drawn by argon2.
GetPasswordHash(password, salt) ==
    IF password \in Oversized
    THEN [answer |-> "PasswordSizeError", password_hash |-> NotADigest]
    ELSE [answer |-> "returned", password_hash |-> Digest(password, salt)]

\* A verifier that accepts every password.
VerifyAcceptsAll(password, password_hash) == "True"

\* verify_password_hash: pwd_context.verify(password, password_hash)
\* identifies the scheme of the hash, checks the size of the secret, decodes
\* the hash and compares the checksum computed under the salt of the hash.
VerifyPasswordHash(password, password_hash) ==
    IF password_hash.scheme # "argon2" THEN "UnknownHashError"
    ELSE IF password \in Oversized THEN "PasswordSizeError"
    ELSE IF password_hash \in MalformedDigests THEN "MalformedHashError"
    ELSE IF Argon2(password, password_hash.salt) = password_hash.checksum
    THEN "True"
    ELSE "False"

\* A users row: the columns the auth service reads and writes.
UserRow(email, password_hxh) ==
    [email |-> email, email_verified |-> FALSE, password_hxh |-> password_hxh]

\* The one user registered here; u2 and u3 act in the swap and listing calls
\* as authenticated principals only.
RegisteredUsers == ("u1" :> UserRow("u1@renex", Digest("pw1", "s1")))

\* Optional[str]: None, or Some(text) with the text a sequence of pieces.
None == << >>

Some(text) == <<text>>

\* Python's truth value of an Optional[str]: None and "" are false.
Truthy(opt) == opt # None /\ opt[1] # << >>

\* The pieces "\n\n" and "Response: " of the f-strings in respond_to_swap.
TwoNewlines == "\\n\\n"

ResponsePrefix == "Response: "

\* The messages a caller sends: none, the empty string, a text.
Messages == {None, Some(<< >>), Some(<<"hello">>)}

NoMessages == {None}

\* A Listings row of a supply of solar energy over the window 0 to 1; times
\* are whole numbers.
ListingRow(owner, st, vol) ==
    [user_id |-> owner, status |-> st, volume |-> vol,
     listing_type |-> "supply", energy_type |-> "solar",
     start_time |-> 0, end_time |-> 1]

\* A Swap row addressed to its initiator instead of the listing's owner.
SwapRowToInitiator(l, i, rcp, v, msg) ==
    [listing_id |-> l, initiator_id |-> i, recipient_id |-> i,
     proposed_volume |-> v, message |-> msg, status |-> PENDING,
     proposed_at |-> TRUE, responded_at |-> FALSE, completed_at |-> FALSE]

\* A Swap row; responded_at and completed_at are TRUE when set, FALSE when null.
SwapRow(l, i, rcp, v, msg) ==
    [listing_id |-> l, initiator_id |-> i, recipient_id |-> rcp,
     proposed_volume |-> v, message |-> msg, status |-> PENDING,
     proposed_at |-> TRUE, responded_at |-> FALSE, completed_at |-> FALSE]

\* A connection with no call made on it yet.
NoReq ==
    [pc |-> "idle", op |-> "none", user_id |-> "none", listing_id |-> 0,
     swap_id |-> 0, proposed_volume |-> 0, status |-> "none",
     recipient_id |-> "none", volume |-> 0, listing_status |-> "none",
     dirty |-> {}, message |-> None, row_message |-> None, result |-> {},
     filters |-> {}, page |-> 0, page_size |-> 0, total |-> 0, feed |-> << >>,
     code |-> 0, detail |-> "none"]

Call(op, u, l, s) ==
    [NoReq EXCEPT !.op = op, !.user_id = u, !.listing_id = l, !.swap_id = s]

\* The call has returned or raised: only its arguments and its response stay.
Response(c, code, detail) ==
    [Call(c.op, c.user_id, c.listing_id, c.swap_id)
        EXCEPT !.pc = "done", !.code = code, !.detail = detail,
               !.proposed_volume = IF c.op = "create_swap"
                                   THEN c.proposed_volume ELSE 0,
               !.status = IF c.op = "respond_to_swap" THEN c.status ELSE "none"]

\* A call starts on a connection with no call on it, and no call takes a step
\* while a response waits to be handed over: the handing over touches no
\* table, so taking it first loses no behaviour of the tables.
Free(r) == req[r].pc = "idle" /\ \A q \in Reqs : req[q].pc # "done"

Running(r, pc) == req[r].pc = pc /\ \A q \in Reqs : req[q].pc # "done"

\* The response is handed to the caller and the connection is free again.
Deliver(r) ==
    /\ req[r].pc = "done"
    /\ req' = [req EXCEPT ![r] = NoReq]
    /\ UNCHANGED <<listings, swaps>>
    /\ UNCHANGED authVars

\* ------------------------------------------------------ create_swap

ListingIsActive(listing) == listing.status = "active"

\* create_swap without its ownership check.
OwnListingUnchecked(listing, initiator_id) == FALSE

OwnListing(listing, initiator_id) == listing.user_id = initiator_id

\* create_swap without its volume check.
ExceedsVolumeUnchecked(proposed_volume, listing) == FALSE

ExceedsVolume(proposed_volume, listing) == proposed_volume > listing.volume

\* The rows the duplicate check selects.
PendingSwapsOf(l, i) ==
    {s \in DOMAIN swaps :
        /\ swaps[s].listing_id = l
        /\ swaps[s].initiator_id = i
        /\ swaps[s].status = PENDING}

\* SELECT the listing, then the checks made on the row read.
ProposeReadListing(r, u, l, v, msg) ==
    /\ Free(r)
    /\ LET c == [Call("create_swap", u, l, 0) EXCEPT !.proposed_volume = v,
                                                     !.message = msg] IN
       IF l \notin DOMAIN listings
       THEN req' = [req EXCEPT ![r] =
                        Response(c, HTTP_404_NOT_FOUND, "listing_not_found")]
       ELSE IF ~ListingIsActive(listings[l])
       THEN req' = [req EXCEPT ![r] =
                        Response(c, HTTP_400_BAD_REQUEST, "inactive_listing")]
       ELSE IF OwnListing(listings[l], u)
       THEN req' = [req EXCEPT ![r] =
                        Response(c, HTTP_400_BAD_REQUEST, "own_listing")]
       ELSE IF ExceedsVolume(v, listings[l])
       THEN req' = [req EXCEPT ![r] =
                        Response(c, HTTP_400_BAD_REQUEST, "exceeds_volume")]
       ELSE req' = [req EXCEPT ![r] =
                        [c EXCEPT !.pc = "duplicate_check",
                                  !.recipient_id = listings[l].user_id]]
    /\ UNCHANGED <<listings, swaps>>
    /\ UNCHANGED authVars

\* SELECT the initiator's pending swap on the listing.  scalar_one_or_none
\* raises outside the try block when several rows match: an unhandled error.
ProposeCheckDuplicate(r) ==
    /\ Running(r, "duplicate_check")
    /\ LET n == Cardinality(PendingSwapsOf(req[r].listing_id, req[r].user_id)) IN
       IF n > 1
       THEN req' = [req EXCEPT ![r] =
                Response(req[r], HTTP_500_INTERNAL_SERVER_ERROR, "multiple_rows")]
       ELSE IF n = 1
       THEN req' = [req EXCEPT ![r] =
                Response(req[r], HTTP_400_BAD_REQUEST, "duplicate_pending")]
       ELSE req' = [req EXCEPT ![r] = [req[r] EXCEPT !.pc = "insert"]]
    /\ UNCHANGED <<listings, swaps>>
    /\ UNCHANGED authVars

\* INSERT and COMMIT.  The primary key is the column default, a uuid4 drawn
\* once when the serving process imported the models; which process serves
\* the call is not fixed, so the key is any id, and a key already in the
\* table makes the commit fail like any other store error; so does a
\* listing_id whose listing has been deleted since it was read (foreign key).
ProposeInsert(r, id) ==
    /\ Running(r, "insert")
    /\ IF id \in DOMAIN swaps \/ req[r].listing_id \notin DOMAIN listings
       THEN /\ req' = [req EXCEPT ![r] =
                    Response(req[r], HTTP_500_INTERNAL_SERVER_ERROR, "failed")]
            /\ UNCHANGED swaps
       ELSE /\ swaps' = swaps @@ (id :> SwapRow(req[r].listing_id, req[r].user_id,
                                      req[r].recipient_id, req[r].proposed_volume,
                                      req[r].message))
            /\ req' = [req EXCEPT ![r] =
                    Response([req[r] EXCEPT !.swap_id = id], HTTP_201_CREATED, "ok")]
    /\ UNCHANGED listings
    /\ UNCHANGED authVars

\* The commit fails in the store: rollback, 500.
ProposeFail(r) ==
    /\ Running(r, "insert")
    /\ req' = [req EXCEPT ![r] =
                    Response(req[r], HTTP_500_INTERNAL_SERVER_ERROR, "failed")]
    /\ UNCHANGED <<listings, swaps>>
    /\ UNCHANGED authVars

\* ------------------------------------------ the row a call may act on

\* The SELECT without its recipient_id filter.
AnyoneSees(s, u) == s \in DOMAIN swaps

\* SELECT ... WHERE id = swap_id AND recipient_id = user_id
RecipientSees(s, u) == s \in DOMAIN swaps /\ swaps[s].recipient_id = u

\* SELECT ... WHERE id = swap_id AND (initiator_id = user_id OR recipient_id = user_id)
ParticipantSees(s, u) ==
    s \in DOMAIN swaps /\ (swaps[s].initiator_id = u \/ swaps[s].recipient_id = u)

\* complete_swap flushes its UPDATE of the swap row before it reads the
\* listing; the row stays locked by that transaction until it ends.
LockedByOther(s, r) ==
    \E q \in Reqs \ {r} : req[q].pc = "commit" /\ req[q].op = "complete_swap"
                          /\ req[q].swap_id = s

\* -------------------------------------------------- respond_to_swap

CanRespond(st) == st = PENDING

\* respond_to_swap taking any SwapStatus the request schema admits.
ValidResponseAnyStatus(target) == target \in SwapStatus

ValidResponse(target) == target \in {ACCEPTED, REJECTED}

\* respond_to_swap assigning and committing the status before it validates it.
RespondReadWritesFirst(r, u, s, target, msg) ==
    /\ Free(r)
    /\ LET c == [Call("respond_to_swap", u, 0, s) EXCEPT !.status = target,
                                                        !.message = msg] IN
       IF ~RecipientSees(s, u)
       THEN /\ req' = [req EXCEPT ![r] =
                        Response(c, HTTP_404_NOT_FOUND, "not_found_or_forbidden")]
            /\ UNCHANGED swaps
       ELSE IF ~CanRespond(swaps[s].status)
       THEN /\ req' = [req EXCEPT ![r] =
                        Response(c, HTTP_400_BAD_REQUEST, "wrong_status")]
            /\ UNCHANGED swaps
       ELSE /\ swaps' = [swaps EXCEPT ![s].status = target]
            /\ IF ~ValidResponse(target)
               THEN req' = [req EXCEPT ![r] =
                        Response(c, HTTP_400_BAD_REQUEST, "wrong_target")]
               ELSE req' = [req EXCEPT ![r] =
                        [c EXCEPT !.pc = "commit",
                                  !.row_message = swaps[s].message]]
    /\ UNCHANGED listings
    /\ UNCHANGED authVars

\* SELECT the swap, then the checks made on the row read.
RespondRead(r, u, s, target, msg) ==
    /\ Free(r)
    /\ LET c == [Call("respond_to_swap", u, 0, s) EXCEPT !.status = target,
                                                        !.message = msg] IN
       IF ~RecipientSees(s, u)
       THEN req' = [req EXCEPT ![r] =
                        Response(c, HTTP_404_NOT_FOUND, "not_found_or_forbidden")]
       ELSE IF ~CanRespond(swaps[s].status)
       THEN req' = [req EXCEPT ![r] =
                        Response(c, HTTP_400_BAD_REQUEST, "wrong_status")]
       ELSE IF ~ValidResponse(target)
       THEN req' = [req EXCEPT ![r] =
                        Response(c, HTTP_400_BAD_REQUEST, "wrong_target")]
       ELSE req' = [req EXCEPT ![r] =
                        [c EXCEPT !.pc = "commit",
                                  !.row_message = swaps[s].message]]
    /\ UNCHANGED <<listings, swaps>>
    /\ UNCHANGED authVars

\* swap.message after the assignments made when a response message is given:
\* the message read joined with the response, or the response behind its prefix.
JoinedMessage(row_message, message) ==
    IF Truthy(row_message)
    THEN Some(row_message[1] \o <<TwoNewlines, ResponsePrefix>> \o message[1])
    ELSE Some(<<ResponsePrefix>> \o message[1])

\* The message column after the commit: assigned only if update_data.message
\* is given and not empty.
RespondedMessage(current, row_message, message) ==
    IF Truthy(message) THEN JoinedMessage(row_message, message) ELSE current

\* The commit without the assignment of responded_at.
RespondCommitNoTimestamp(r) ==
    /\ Running(r, "commit") /\ req[r].op = "respond_to_swap"
    /\ ~LockedByOther(req[r].swap_id, r)
    /\ req[r].swap_id \in DOMAIN swaps
    /\ swaps' = [swaps EXCEPT ![req[r].swap_id] =
                    [@ EXCEPT !.status = req[r].status,
                              !.message = RespondedMessage(@, req[r].row_message,
                                                           req[r].message)]]
    /\ req' = [req EXCEPT ![r] = Response(req[r], HTTP_200_OK, "ok")]
    /\ UNCHANGED listings
    /\ UNCHANGED authVars

\* UPDATE swaps SET status, responded_at WHERE id; COMMIT.
RespondCommit(r) ==
    /\ Running(r, "commit") /\ req[r].op = "respond_to_swap"
    /\ ~LockedByOther(req[r].swap_id, r)
    /\ IF req[r].swap_id \in DOMAIN swaps
       THEN /\ swaps' = [swaps EXCEPT ![req[r].swap_id] =
                            [@ EXCEPT !.status = req[r].status,
                                      !.responded_at = TRUE,
                                      !.message =
                                          RespondedMessage(@, req[r].row_message,
                                                           req[r].message)]]
            /\ req' = [req EXCEPT ![r] = Response(req[r], HTTP_200_OK, "ok")]
       ELSE /\ req' = [req EXCEPT ![r] =
                    Response(req[r], HTTP_500_INTERNAL_SERVER_ERROR, "failed")]
            /\ UNCHANGED swaps
    /\ UNCHANGED listings
    /\ UNCHANGED authVars

\* The store fails: rollback, 500.
RespondFail(r) ==
    /\ Running(r, "commit") /\ req[r].op = "respond_to_swap"
    /\ req' = [req EXCEPT ![r] =
                    Response(req[r], HTTP_500_INTERNAL_SERVER_ERROR, "failed")]
    /\ UNCHANGED <<listings, swaps>>
    /\ UNCHANGED authVars

\* ------------------------------------------------------ cancel_swap

\* cancel_swap without its status check.
CanCancelAnyStatus(st) == TRUE

\* cancel_swap as its docstring has it: "if pending".
CanCancelPendingOnly(st) == st = PENDING

CanCancel(st) == st \in {PENDING, ACCEPTED}

CancelRead(r, u, s) ==
    /\ Free(r)
    /\ LET c == Call("cancel_swap", u, 0, s) IN
       IF ~ParticipantSees(s, u)
       THEN req' = [req EXCEPT ![r] =
                        Response(c, HTTP_404_NOT_FOUND, "not_found_or_forbidden")]
       ELSE IF ~CanCancel(swaps[s].status)
       THEN req' = [req EXCEPT ![r] =
                        Response(c, HTTP_400_BAD_REQUEST, "wrong_status")]
       ELSE req' = [req EXCEPT ![r] = [c EXCEPT !.pc = "commit"]]
    /\ UNCHANGED <<listings, swaps>>
    /\ UNCHANGED authVars

\* UPDATE swaps SET status WHERE id; COMMIT.
CancelCommit(r) ==
    /\ Running(r, "commit") /\ req[r].op = "cancel_swap"
    /\ ~LockedByOther(req[r].swap_id, r)
    /\ IF req[r].swap_id \in DOMAIN swaps
       THEN /\ swaps' = [swaps EXCEPT ![req[r].swap_id].status = CANCELLED]
            /\ req' = [req EXCEPT ![r] = Response(req[r], HTTP_200_OK, "ok")]
       ELSE /\ req' = [req EXCEPT ![r] =
                    Response(req[r], HTTP_500_INTERNAL_SERVER_ERROR, "failed")]
            /\ UNCHANGED swaps
    /\ UNCHANGED listings
    /\ UNCHANGED authVars

CancelFail(r) ==
    /\ Running(r, "commit") /\ req[r].op = "cancel_swap"
    /\ req' = [req EXCEPT ![r] =
                    Response(req[r], HTTP_500_INTERNAL_SERVER_ERROR, "failed")]
    /\ UNCHANGED <<listings, swaps>>
    /\ UNCHANGED authVars

\* ---------------------------------------------------- complete_swap

CanComplete(st) == st = ACCEPTED

\* The reduction without its floor.
ReducedVolumeNoFloor(volume, proposed_volume) == volume - proposed_volume

\* listing.volume = max(0, listing.volume - swap.proposed_volume)
ReducedVolume(volume, proposed_volume) == Max(0, volume - proposed_volume)

\* if listing.volume == 0: listing.status = "completed"
ForcedStatus(volume, st) == IF volume = 0 THEN "completed" ELSE st

CompleteRead(r, u, s) ==
    /\ Free(r)
    /\ LET c == Call("complete_swap", u, 0, s) IN
       IF ~RecipientSees(s, u)
       THEN req' = [req EXCEPT ![r] =
                        Response(c, HTTP_404_NOT_FOUND, "not_found_or_forbidden")]
       ELSE IF ~CanComplete(swaps[s].status)
       THEN req' = [req EXCEPT ![r] =
                        Response(c, HTTP_400_BAD_REQUEST, "wrong_status")]
       ELSE req' = [req EXCEPT ![r] =
                        [c EXCEPT !.pc = "flush",
                                  !.listing_id = swaps[s].listing_id,
                                  !.proposed_volume = swaps[s].proposed_volume]]
    /\ UNCHANGED <<listings, swaps>>
    /\ UNCHANGED authVars

\* The columns of the loaded listing row whose value the assignments changed:
\* the UPDATE at commit sets these and no others.
DirtyColumns(listing, volume, st) ==
    (IF volume # listing.volume THEN {"volume"} ELSE {})
    \cup (IF st # listing.status THEN {"status"} ELSE {})

\* The session autoflushes UPDATE swaps SET status, completed_at before the
\* SELECT of the listing (it waits while another transaction holds the row),
\* then the new volume and status are assigned on the listing row read.
CompleteFlushAndReadListing(r) ==
    /\ Running(r, "flush")
    /\ ~LockedByOther(req[r].swap_id, r)
    /\ LET l == req[r].listing_id IN
       IF req[r].swap_id \notin DOMAIN swaps
       THEN req' = [req EXCEPT ![r] =
                    Response([req[r] EXCEPT !.listing_id = 0],
                             HTTP_500_INTERNAL_SERVER_ERROR, "failed")]
       ELSE IF l \notin DOMAIN listings
       THEN req' = [req EXCEPT ![r] = [req[r] EXCEPT !.pc = "commit"]]
       ELSE LET v == ReducedVolume(listings[l].volume, req[r].proposed_volume)
                st == ForcedStatus(v, listings[l].status)
            IN req' = [req EXCEPT ![r] =
                    [req[r] EXCEPT !.pc = "commit", !.volume = v,
                        !.listing_status = st,
                        !.dirty = DirtyColumns(listings[l], v, st)]]
    /\ UNCHANGED <<listings, swaps>>
    /\ UNCHANGED authVars

\* A commit that also rejects the other pending swaps against the listing
\* when its volume has come to 0.
CompleteCommitClosesOthers(r) ==
    /\ Running(r, "commit") /\ req[r].op = "complete_swap"
    /\ LET s == req[r].swap_id
           l == req[r].listing_id IN
       IF s \in DOMAIN swaps /\ (req[r].dirty = {} \/ l \in DOMAIN listings)
       THEN /\ swaps' =
                 [t \in DOMAIN swaps |->
                    IF t = s
                    THEN [swaps[t] EXCEPT !.status = COMPLETED,
                                          !.completed_at = TRUE]
                    ELSE IF /\ swaps[t].listing_id = l
                            /\ swaps[t].status = PENDING
                            /\ "volume" \in req[r].dirty /\ req[r].volume = 0
                    THEN [swaps[t] EXCEPT !.status = REJECTED]
                    ELSE swaps[t]]
            /\ listings' =
                 IF req[r].dirty = {} THEN listings
                 ELSE [listings EXCEPT ![l] =
                        [@ EXCEPT
                          !.volume = IF "volume" \in req[r].dirty
                                     THEN req[r].volume ELSE @,
                          !.status = IF "status" \in req[r].dirty
                                     THEN req[r].listing_status ELSE @]]
            /\ req' = [req EXCEPT ![r] =
                        Response([req[r] EXCEPT !.listing_id = 0], HTTP_200_OK, "ok")]
       ELSE /\ req' = [req EXCEPT ![r] =
                        Response([req[r] EXCEPT !.listing_id = 0],
                                 HTTP_500_INTERNAL_SERVER_ERROR, "failed")]
            /\ UNCHANGED <<listings, swaps>>
    /\ UNCHANGED authVars

\* UPDATE listings SET the changed columns WHERE id; COMMIT: the swap's and
\* the listing's new values become the committed ones together.
CompleteCommit(r) ==
    /\ Running(r, "commit") /\ req[r].op = "complete_swap"
    /\ LET s == req[r].swap_id
           l == req[r].listing_id IN
       IF s \in DOMAIN swaps /\ (req[r].dirty = {} \/ l \in DOMAIN listings)
       THEN /\ swaps' = [swaps EXCEPT ![s] =
                            [@ EXCEPT !.status = COMPLETED, !.completed_at = TRUE]]
            /\ listings' =
                 IF req[r].dirty = {} THEN listings
                 ELSE [listings EXCEPT ![l] =
                        [@ EXCEPT
                          !.volume = IF "volume" \in req[r].dirty
                                     THEN req[r].volume ELSE @,
                          !.status = IF "status" \in req[r].dirty
                                     THEN req[r].listing_status ELSE @]]
            /\ req' = [req EXCEPT ![r] =
                        Response([req[r] EXCEPT !.listing_id = 0], HTTP_200_OK, "ok")]
       ELSE /\ req' = [req EXCEPT ![r] =
                        Response([req[r] EXCEPT !.listing_id = 0],
                                 HTTP_500_INTERNAL_SERVER_ERROR, "failed")]
            /\ UNCHANGED <<listings, swaps>>
    /\ UNCHANGED authVars

\* A failure that leaves the flushed UPDATE of the swap in place.
CompleteFailKeepsSwap(r) ==
    /\ (Running(r, "flush") \/ Running(r, "commit")) /\ req[r].op = "complete_swap"
    /\ req' = [req EXCEPT ![r] =
                    Response([req[r] EXCEPT !.listing_id = 0],
                             HTTP_500_INTERNAL_SERVER_ERROR, "failed")]
    /\ swaps' = IF req[r].pc = "commit" /\ req[r].swap_id \in DOMAIN swaps
                THEN [swaps EXCEPT ![req[r].swap_id] =
                        [@ EXCEPT !.status = COMPLETED, !.completed_at = TRUE]]
                ELSE swaps
    /\ UNCHANGED listings
    /\ UNCHANGED authVars

\* The store fails before the commit is done: rollback of the swap's and the
\* listing's changes, 500.
CompleteFail(r) ==
    /\ (Running(r, "flush") \/ Running(r, "commit")) /\ req[r].op = "complete_swap"
    /\ req' = [req EXCEPT ![r] =
                    Response([req[r] EXCEPT !.listing_id = 0],
                             HTTP_500_INTERNAL_SERVER_ERROR, "failed")]
    /\ UNCHANGED <<listings, swaps>>
    /\ UNCHANGED authVars

\* ------------------------------------------------- listings service

ListingTypes == {"demand", "supply"}

EnergyTypes == {"solar", "wind"}

\* The statuses update_listing is asked for here; the request schema admits
\* completed and cancelled as well.
UpdateStatuses == {"active", "inactive"}

Times == 0..MaxTime

\* The primary keys a new listing gets here.
NewListingIds == {1, 2}

Owners == {"u1", "u2"}

\* The time ranges callers send: start before end, and start equal to end.
TimeRanges == {p \in Times \X Times : p[1] <= p[2]}

\* ListingCreateRequest, with the one volume MaxVolume.
ListingCreateRequests ==
    {[listing_type |-> lt, energy_type |-> et, volume |-> MaxVolume,
      location |-> <<"a", "b">>, start_time |-> p[1], end_time |-> p[2]] :
        lt \in ListingTypes, et \in EnergyTypes, p \in TimeRanges}

\* update_data.model_dump(exclude_unset=True): the fields the caller set.
UpdateDicts ==
    {[c \in {"status"} |-> st] : st \in UpdateStatuses}
    \cup {[c \in {"start_time"} |-> t] : t \in Times}
    \cup {[c \in {"end_time"} |-> t] : t \in Times}
    \cup {[c \in {"start_time", "end_time"} |->
               IF c = "start_time" THEN p[1] ELSE p[2]] : p \in TimeRanges}

\* Listings(..., user_id=user_id, status="active")
NewListing(listing_data, user_id) ==
    [user_id |-> user_id, status |-> "active", volume |-> listing_data.volume,
     listing_type |-> listing_data.listing_type,
     energy_type |-> listing_data.energy_type,
     location |-> listing_data.location,
     start_time |-> listing_data.start_time,
     end_time |-> listing_data.end_time]

\* When the process whose primary key default is id imported the models: the
\* processes are numbered from the one started last, all before time 0.
StartedAt(id) == 0 - id

\* The column default of created_at is get_current_time(), called once when
\* the serving process imported the models, so every row a process inserts
\* gets the time that process started.  inserted_at is no column: it keeps
\* the time of the INSERT, to tell which row was created last.
TimeStamped(id) ==
    [created_at |-> StartedAt(id), inserted_at |-> clock]

\* create_listing: the time range is validated, then INSERT and COMMIT; the
\* primary key is the column default (see ProposeInsert).  The caller is a
\* registered user, so the SELECT of the user finds a row.
CreateListing(r, u, id, listing_data) ==
    /\ Free(r)
    /\ LET c == Call("create_listing", u, id, 0) IN
       IF listing_data.start_time >= listing_data.end_time
       THEN /\ req' = [req EXCEPT ![r] =
                        Response(c, HTTP_400_BAD_REQUEST, "bad_time_range")]
            /\ UNCHANGED listings
       ELSE IF id \in DOMAIN listings
       THEN /\ req' = [req EXCEPT ![r] =
                        Response(c, HTTP_500_INTERNAL_SERVER_ERROR, "failed")]
            /\ UNCHANGED listings
       ELSE /\ listings' = listings @@
                    (id :> (NewListing(listing_data, u) @@ TimeStamped(id)))
            /\ req' = [req EXCEPT ![r] = Response(c, HTTP_201_CREATED, "ok")]
    /\ UNCHANGED swaps
    /\ UNCHANGED authVars

\* SELECT ... WHERE id = listing_id AND user_id = user_id
OwnerSees(l, u) == l \in DOMAIN listings /\ listings[l].user_id = u

\* The time range check made only when both times are given.
BadTimeRangeBothOnly(listing, update_dict) ==
    /\ {"start_time", "end_time"} \subseteq DOMAIN update_dict
    /\ update_dict["start_time"] >= update_dict["end_time"]

\* The time range checks of update_listing: both times given, only
\* start_time, only end_time.
BadTimeRange(listing, update_dict) ==
    IF {"start_time", "end_time"} \subseteq DOMAIN update_dict
    THEN update_dict["start_time"] >= update_dict["end_time"]
    ELSE IF "start_time" \in DOMAIN update_dict
    THEN update_dict["start_time"] >= listing.end_time
    ELSE IF "end_time" \in DOMAIN update_dict
    THEN listing.start_time >= update_dict["end_time"]
    ELSE FALSE

\* for field, value in update_dict.items(): setattr(listing, field, value)
UpdatedListing(listing, update_dict) ==
    [c \in DOMAIN listing |->
        IF c \in DOMAIN update_dict THEN update_dict[c] ELSE listing[c]]

UpdateListing(r, u, l, update_dict) ==
    /\ Free(r)
    /\ LET c == Call("update_listing", u, l, 0) IN
       IF ~OwnerSees(l, u)
       THEN /\ req' = [req EXCEPT ![r] =
                        Response(c, HTTP_404_NOT_FOUND, "not_found_or_forbidden")]
            /\ UNCHANGED listings
       ELSE IF BadTimeRange(listings[l], update_dict)
       THEN /\ req' = [req EXCEPT ![r] =
                        Response(c, HTTP_400_BAD_REQUEST, "bad_time_range")]
            /\ UNCHANGED listings
       ELSE /\ listings' = [listings EXCEPT ![l] = UpdatedListing(@, update_dict)]
            /\ req' = [req EXCEPT ![r] = Response(c, HTTP_200_OK, "ok")]
    /\ UNCHANGED swaps
    /\ UNCHANGED authVars

\* delete_listing deleting the listing row alone.
DeleteListingNoCascade(r, u, l) ==
    /\ Free(r)
    /\ LET c == Call("delete_listing", u, l, 0) IN
       IF ~OwnerSees(l, u)
       THEN /\ req' = [req EXCEPT ![r] =
                        Response(c, HTTP_404_NOT_FOUND, "not_found_or_forbidden")]
            /\ UNCHANGED <<listings, swaps>>
       ELSE /\ listings' = [k \in DOMAIN listings \ {l} |-> listings[k]]
            /\ UNCHANGED swaps
            /\ req' = [req EXCEPT ![r] = Response(c, HTTP_200_OK, "ok")]
    /\ UNCHANGED authVars

\* delete_listing: the listing's swaps go with it (cascade).
DeleteListing(r, u, l) ==
    /\ Free(r)
    /\ LET c == Call("delete_listing", u, l, 0) IN
       IF ~OwnerSees(l, u)
       THEN /\ req' = [req EXCEPT ![r] =
                        Response(c, HTTP_404_NOT_FOUND, "not_found_or_forbidden")]
            /\ UNCHANGED <<listings, swaps>>
       ELSE /\ listings' = [k \in DOMAIN listings \ {l} |-> listings[k]]
            /\ swaps' = [s \in {t \in DOMAIN swaps : swaps[t].listing_id # l}
                            |-> swaps[s]]
            /\ req' = [req EXCEPT ![r] = Response(c, HTTP_200_OK, "ok")]
    /\ UNCHANGED authVars

\* The commit of a create, update or delete fails in the store: rollback, 500.
ListingCommitFails(r, op, u, l) ==
    /\ Free(r)
    /\ op = "create_listing" \/ OwnerSees(l, u)
    /\ req' = [req EXCEPT ![r] =
                    Response(Call(op, u, l, 0), HTTP_500_INTERNAL_SERVER_ERROR,
                             "failed")]
    /\ UNCHANGED <<listings, swaps>>
    /\ UNCHANGED authVars

\* "demand" if user_listing.listing_type == "supply" else "supply"
OppositeType(listing_type) == IF listing_type = "supply" THEN "demand" ELSE "supply"

\* The overlap test with strict comparisons.
TimeOverlapExclusive(m, user_listing) ==
    m.start_time < user_listing.end_time /\ m.end_time > user_listing.start_time

\* Listings.start_time <= user_listing.end_time,
\* Listings.end_time >= user_listing.start_time
TimeOverlap(m, user_listing) ==
    m.start_time <= user_listing.end_time /\ m.end_time >= user_listing.start_time

\* The rows the matching query selects.
MatchingListings(user_listing) ==
    {m \in DOMAIN listings :
        /\ listings[m].user_id # user_listing.user_id
        /\ listings[m].listing_type = OppositeType(user_listing.listing_type)
        /\ listings[m].energy_type = user_listing.energy_type
        /\ listings[m].status = "active"
        /\ TimeOverlap(listings[m], user_listing)}

\* get_matching_listings: SELECT the listing, 404 if there is none, then the
\* matching query; the response lists the rows selected.
GetMatchingListings(r, l) ==
    /\ Free(r)
    /\ LET c == Call("get_matching_listings", "none", l, 0) IN
       IF l \notin DOMAIN listings
       THEN req' = [req EXCEPT ![r] =
                        Response(c, HTTP_404_NOT_FOUND, "listing_not_found")]
       ELSE req' = [req EXCEPT ![r] =
                        [Response(c, HTTP_200_OK, "ok")
                            EXCEPT !.result = MatchingListings(listings[l])]]
    /\ UNCHANGED <<listings, swaps>>
    /\ UNCHANGED authVars

\* ------------------------------------------------------------- feed

\* Locations as strings of characters.
FarmLocations == {<<"a", "b">>, <<"A", "c">>}

\* ListingCreateRequests of three kinds of listing at the two locations, all
\* over the window 0 to 1.
FeedCreateRequests ==
    {[listing_type |-> "supply", energy_type |-> "solar", volume |-> MaxVolume,
      location |-> <<"a", "b">>, start_time |-> 0, end_time |-> 1],
     [listing_type |-> "demand", energy_type |-> "solar", volume |-> MaxVolume,
      location |-> <<"A", "c">>, start_time |-> 0, end_time |-> 1],
     [listing_type |-> "supply", energy_type |-> "wind", volume |-> MaxVolume,
      location |-> <<"A", "c">>, start_time |-> 0, end_time |-> 1]}

\* The query parameters of the feed; "" and None stand for a parameter that
\* is not given (both are false in Python).
FeedFilters ==
    {[listing_type |-> "", energy_type |-> "", location |-> None],
     [listing_type |-> "supply", energy_type |-> "", location |-> None],
     [listing_type |-> "", energy_type |-> "solar", location |-> None],
     [listing_type |-> "", energy_type |-> "", location |-> Some(<<"a">>)],
     [listing_type |-> "", energy_type |-> "", location |-> Some(<<"_", "c">>)],
     [listing_type |-> "supply", energy_type |-> "solar",
      location |-> Some(<<"b">>)]}

Pages == {1, 2}

PageSizes == {1, 2}

Lower(c) == IF c = "A" THEN "a" ELSE IF c = "B" THEN "b" ELSE IF c = "C" THEN "c" ELSE c

\* text ILIKE '%' || pattern || '%': the pattern is found somewhere in the
\* text, letters compared without case, "_" standing for any one character.
ILikeContains(text, pattern) ==
    \E i \in 0..(Len(text) - Len(pattern)) :
        \A k \in 1..Len(pattern) :
            pattern[k] = "_" \/ Lower(pattern[k]) = Lower(text[i + k])

\* The WHERE clause of the feed query.
FeedQuery(u, f) ==
    {l \in DOMAIN listings :
        /\ listings[l].user_id # u
        /\ listings[l].status = "active"
        /\ f.listing_type # "" => listings[l].listing_type = f.listing_type
        /\ f.energy_type # "" => listings[l].energy_type = f.energy_type
        /\ Truthy(f.location) => ILikeContains(listings[l].location, f.location[1])}

\* ORDER BY created_at DESC; the created_at of two rows differ, as the rows
\* come from different processes.
RECURSIVE OrderByCreatedAtDesc(_)
OrderByCreatedAtDesc(S) ==
    IF S = {} THEN << >>
    ELSE LET first == CHOOSE x \in S :
                        \A y \in S : listings[y].created_at <= listings[x].created_at
         IN <<first>> \o OrderByCreatedAtDesc(S \ {first})

\* LIMIT page_size OFFSET offset
LimitOffset(rows, page_size, offset) ==
    SubSeq(rows, offset + 1,
           IF offset + page_size <= Len(rows) THEN offset + page_size ELSE Len(rows))

\* get_feed_listings: the count over the filtered query, then the page of it.
GetFeedListings(r, u, f, page, page_size) ==
    /\ Free(r)
    /\ LET c == Call("get_feed_listings", u, 0, 0)
           offset == (page - 1) * page_size
           query == FeedQuery(u, f)
       IN req' = [req EXCEPT ![r] =
                    [Response(c, HTTP_200_OK, "ok")
                        EXCEPT !.filters = f, !.page = page,
                               !.page_size = page_size,
                               !.total = Cardinality(query),
                               !.feed = LimitOffset(OrderByCreatedAtDesc(query),
                                                    page_size, offset)]]
    /\ UNCHANGED <<listings, swaps>>
    /\ UNCHANGED authVars

\* A minute passes between two calls.
MinutePasses(r) ==
    /\ Free(r)
    /\ clock < MaxTime - 1
    /\ clock' = clock + 1
    /\ UNCHANGED <<settings, pyjwt, users, issued, call>>
    /\ UNCHANGED swapVars

\* ------------------------------------------------- tokens (auth service)

\* The secrets an operator may configure, and the subjects tokens are made for.
Secrets == {"k1", "k2"}

Subjects == {"u1", "u2"}

\* Every Settings the service starts with: each field is required and any
\* value of its type is taken; nothing relates the two secrets.
AcceptedSettings ==
    [JWT_SECRET_KEY : Secrets, JWT_REFRESH_SECRET : Secrets,
     JWT_EXP : 1..MaxExp, JWT_REFRESH_EXP : 1..MaxExp]

\* The installed PyJWT release line: decode() takes the algorithms from the
\* token's header when none are given (1.x), or demands them (2.x).
PyJWTReleases == {"1.x", "2.x"}

\* A signed token: its claims and the secret its signature was made with.
Token(sub, iat, exp, key) == [sub |-> sub, iat |-> iat, exp |-> exp, key |-> key]

\* A string that is no JWT, and a token whose signature is not the server's
\* (signed with another secret, or its payload changed after signing).
Garbage == Token("none", 0, 0, "garbage")

Forged(token) == [token EXCEPT !.key = "attacker"]

\* iat + timedelta(minutes=settings.JWT_EXP), signed with JWT_SECRET_KEY
AccessToken(sub, iat) ==
    Token(sub, iat, iat + settings.JWT_EXP, settings.JWT_SECRET_KEY)

\* iat + timedelta(days=settings.JWT_REFRESH_EXP), signed with JWT_REFRESH_SECRET
RefreshToken(sub, iat) ==
    Token(sub, iat, iat + settings.JWT_REFRESH_EXP * MinutesPerDay,
          settings.JWT_REFRESH_SECRET)

\* What a call gives back: a value, an HTTPException, or another exception.
Returned(sub) ==
    [outcome |-> "returned", status_code |-> 0, detail |-> "none", sub |-> sub]

Raised(status_code, detail) ==
    [outcome |-> "HTTPException", status_code |-> status_code,
     detail |-> detail, sub |-> "none"]

TypeErrorRaised ==
    [outcome |-> "TypeError", status_code |-> 0,
     detail |-> "decode() missing 1 required positional argument: 'jwt'",
     sub |-> "none"]

\* jwt.decode(token, key=...) of PyJWT 1.x with an HMAC JWT_ALGORITHM: the
\* encoding, the signature, then exp.
JwtDecode(token, key, now) ==
    IF token = Garbage THEN "DecodeError"
    ELSE IF token.key # key THEN "InvalidSignatureError"
    ELSE IF token.exp < now THEN "ExpiredSignatureError"
    ELSE "ok"

\* verify_access_token: jwt.decode(token, key=...) names no algorithms, which
\* PyJWT 2.x answers with a DecodeError for every token.
VerifyAccessToken(token) ==
    IF pyjwt = "2.x"
    THEN Raised(HTTP_401_UNAUTHORIZED, "Bearer access token is invalid")
    ELSE LET d == JwtDecode(token, settings.JWT_SECRET_KEY, clock) IN
         IF d = "ok" THEN Returned(token.sub)
         ELSE IF d = "ExpiredSignatureError"
         THEN Raised(HTTP_401_UNAUTHORIZED, "Access token has expired")
         ELSE Raised(HTTP_401_UNAUTHORIZED, "Bearer access token is invalid")

\* jwt.decode(token=token, key=..., algorithm=...): the first parameter of
\* decode() is named jwt in every release, so this call leaves it unbound and
\* Python raises a TypeError before anything is decoded.
JwtDecodeByKeyword(token, key, now) == "TypeError"

\* verify_refresh_token: the two except clauses take ExpiredSignatureError and
\* PyJWTError; any other exception leaves the function as it is.
VerifyRefreshToken(token) ==
    LET d == JwtDecodeByKeyword(token, settings.JWT_REFRESH_SECRET, clock) IN
    IF d = "ok" THEN Returned(token.sub)
    ELSE IF d = "ExpiredSignatureError"
    THEN Raised(HTTP_401_UNAUTHORIZED, "Access token has expired")
    ELSE IF d \in {"DecodeError", "InvalidSignatureError"}
    THEN Raised(HTTP_401_UNAUTHORIZED, "Bearer access token is invalid")
    ELSE TypeErrorRaised

\* get_refresh_token: any exception of verify_refresh_token becomes one 401.
GetRefreshToken(token) ==
    LET v == VerifyRefreshToken(token) IN
    IF v.outcome = "returned" THEN v
    ELSE Raised(HTTP_401_UNAUTHORIZED, "Invalid token credentials")

\* The fields CurrentUser requires, and the ones get_current_user passes.
CurrentUserRequired == {"email", "id"}

CurrentUserPassed == {"email", "is_verified"}

\* get_current_user: any exception inside the try block becomes one 401, the
\* HTTPExceptions of verify_access_token and the ValidationError of
\* CurrentUser(email=..., is_verified=...) for a required field not passed;
\* with no user row the function ends without a return statement.
GetCurrentUser(token) ==
    LET v == VerifyAccessToken(token) IN
    IF v.outcome # "returned"
    THEN Raised(HTTP_401_UNAUTHORIZED, "Invalid bearer token")
    ELSE IF v.sub \in DOMAIN users
    THEN IF CurrentUserRequired \subseteq CurrentUserPassed
         THEN Returned(v.sub)
         ELSE Raised(HTTP_401_UNAUTHORIZED, "Invalid bearer token")
    ELSE Returned("None")

NoCall ==
    [op |-> "none", token |-> Garbage, at |-> 0, result |-> Returned("none"),
     access_token |-> Garbage, refresh_token |-> Garbage,
     email |-> "none", password |-> "none", password_hash |-> NotADigest,
     answer |-> "none"]

CallOf(op, token, result) ==
    [NoCall EXCEPT !.op = op, !.token = token, !.at = clock, !.result = result]

\* The tokens a client can present: the issued ones, forgeries of them, garbage.
Presentable ==
    {i.token : i \in issued} \cup {Forged(i.token) : i \in issued} \cup {Garbage}

\* The times the clock shows, the lifetimes a token can have, and with them
\* every token there can be.
Clocks == {d * MinutesPerDay + m : d \in 0..MaxExp, m \in 0..(MaxExp + 1)}

Lifetimes == (1..MaxExp) \cup {d * MinutesPerDay : d \in 1..MaxExp}

Tokens ==
    {Garbage} \cup
    {Token(sub, iat, iat + e, key) :
        sub \in Subjects, iat \in Clocks, e \in Lifetimes,
        key \in Secrets \cup {"attacker"}}

\* The clock advances by a minute or by a day.
Tick(d) ==
    /\ IF d = 1 THEN clock % MinutesPerDay <= MaxExp
                ELSE clock + d <= MaxExp * MinutesPerDay + MaxExp + 1
    /\ clock' = clock + d
    /\ UNCHANGED <<settings, pyjwt, users, issued, call>>
    /\ UNCHANGED swapVars

CreateAccessToken(sub) ==
    /\ Cardinality(issued) < MaxTokens
    /\ LET t == AccessToken(sub, clock) IN
       /\ issued' = issued \cup {[kind |-> "access", token |-> t]}
       /\ call' = CallOf("create_access_token", t, Returned(sub))
    /\ UNCHANGED <<settings, pyjwt, clock, users>>
    /\ UNCHANGED swapVars

CreateRefreshToken(sub) ==
    /\ Cardinality(issued) < MaxTokens
    /\ LET t == RefreshToken(sub, clock) IN
       /\ issued' = issued \cup {[kind |-> "refresh", token |-> t]}
       /\ call' = CallOf("create_refresh_token", t, Returned(sub))
    /\ UNCHANGED <<settings, pyjwt, clock, users>>
    /\ UNCHANGED swapVars

CallVerifyAccessToken(token) ==
    /\ token \in Presentable
    /\ call' = CallOf("verify_access_token", token, VerifyAccessToken(token))
    /\ UNCHANGED <<settings, pyjwt, clock, users, issued>>
    /\ UNCHANGED swapVars

CallVerifyRefreshToken(token) ==
    /\ token \in Presentable
    /\ call' = CallOf("verify_refresh_token", token, VerifyRefreshToken(token))
    /\ UNCHANGED <<settings, pyjwt, clock, users, issued>>
    /\ UNCHANGED swapVars

\* get_refresh_token: a verified token is answered with a new pair of tokens
\* for its subject.
CallGetRefreshToken(token) ==
    /\ token \in Presentable
    /\ LET res == GetRefreshToken(token) IN
       IF res.outcome = "returned"
       THEN /\ call' = [CallOf("get_refresh_token", token, res)
                            EXCEPT !.access_token = AccessToken(res.sub, clock),
                                   !.refresh_token = RefreshToken(res.sub, clock)]
            /\ issued' = issued
                 \cup {[kind |-> "access", token |-> AccessToken(res.sub, clock)],
                       [kind |-> "refresh", token |-> RefreshToken(res.sub, clock)]}
       ELSE /\ call' = CallOf("get_refresh_token", token, res)
            /\ UNCHANGED issued
    /\ UNCHANGED <<settings, pyjwt, clock, users>>
    /\ UNCHANGED swapVars

CallGetCurrentUser(token) ==
    /\ token \in Presentable
    /\ call' = CallOf("get_current_user", token, GetCurrentUser(token))
    /\ UNCHANGED <<settings, pyjwt, clock, users, issued>>
    /\ UNCHANGED swapVars

\* ------------------------------------------------- users (auth service)

Emails == {"u1@renex", "u2@renex", "u3@renex"}

\* An exception no handler of the service takes.
Unhandled(exception) ==
    [outcome |-> exception, status_code |-> 0, detail |-> "none", sub |-> "none"]

UserCall(op, email, password, result) ==
    [NoCall EXCEPT !.op = op, !.email = email, !.password = password,
                   !.at = clock, !.result = result]

\* get_user_by_email: the ids of the rows with that email (email is unique).
UserByEmail(email) == {id \in DOMAIN users : users[id].email = email}

\* jwt.encode serialises the payload with json.dumps, which takes a str as
\* sub and raises TypeError for a UUID.
JwtEncode(sub_type) == IF sub_type = "str" THEN "ok" ELSE "TypeError"

\* create_user: every exception raised inside the try block, the
\* HTTPException for an email already in use included, is raised again as a
\* 500.  With a new email the row is committed (its primary key is the column
\* default: any id, and an id in use fails the commit), and then
\* session.refresh(db_user) is called with db_user = None, which raises.
CreateUser(email, password, salt, id) ==
    /\ IF UserByEmail(email) # {}
       THEN /\ call' = UserCall("create_user", email, password,
                           Raised(HTTP_500_INTERNAL_SERVER_ERROR,
                                  "Failed creating new user with error 401: User with email already exists"))
            /\ UNCHANGED users
       ELSE IF id \in DOMAIN users
       THEN /\ call' = UserCall("create_user", email, password,
                           Raised(HTTP_500_INTERNAL_SERVER_ERROR,
                                  "Failed creating new user with error IntegrityError"))
            /\ UNCHANGED users
       ELSE /\ users' = users @@
                  (id :> UserRow(email, GetPasswordHash(password, salt).password_hash))
            /\ call' = UserCall("create_user", email, password,
                           Raised(HTTP_500_INTERNAL_SERVER_ERROR,
                                  "Failed creating new user with error Class 'builtins.NoneType' is not mapped"))
    /\ UNCHANGED <<settings, pyjwt, clock, issued>>
    /\ UNCHANGED swapVars

\* The store fails at the commit of create_user: 500, and nothing is
\* persisted.
CreateUserStoreFails(email, password) ==
    /\ UserByEmail(email) = {}
    /\ call' = UserCall("create_user", email, password,
                   Raised(HTTP_500_INTERNAL_SERVER_ERROR,
                          "Failed creating new user with error OperationalError"))
    /\ UNCHANGED <<settings, pyjwt, clock, users, issued>>
    /\ UNCHANGED swapVars

\* authenticate_user: no row, or the password verified against the row's
\* hash; when it verifies, create_access_token({"sub": str(db_user.id)}) and
\* then create_refresh_token({"sub": db_user.id}) with the UUID itself.  The
\* function has no try block: what the hasher or jwt.encode raises leaves it.
AuthenticateUserResult(email, password) ==
    IF UserByEmail(email) = {}
    THEN Raised(HTTP_401_UNAUTHORIZED, "User doesn't exist")
    ELSE LET id == CHOOSE i \in UserByEmail(email) : TRUE
             v == VerifyPasswordHash(password, users[id].password_hxh)
         IN IF v = "True"
            THEN IF JwtEncode("str") # "ok" THEN Unhandled(JwtEncode("str"))
                 ELSE IF JwtEncode("UUID") # "ok" THEN Unhandled(JwtEncode("UUID"))
                 ELSE Returned(id)
            ELSE IF v = "False"
            THEN Raised(HTTP_401_UNAUTHORIZED, "Invalid credentials provided")
            ELSE Unhandled(v)

AuthenticateUser(email, password) ==
    /\ LET res == AuthenticateUserResult(email, password) IN
       call' = IF res.outcome = "returned"
               THEN [UserCall("authenticate_user", email, password, res)
                        EXCEPT !.access_token = AccessToken(res.sub, clock),
                               !.refresh_token = RefreshToken(res.sub, clock)]
               ELSE UserCall("authenticate_user", email, password, res)
    /\ UNCHANGED <<settings, pyjwt, clock, users, issued>>
    /\ UNCHANGED swapVars

CallGetPasswordHash(password, salt) ==
    /\ LET h == GetPasswordHash(password, salt) IN
       call' = [NoCall EXCEPT !.op = "get_password_hash", !.password = password,
                              !.password_hash = h.password_hash,
                              !.answer = h.answer]
    /\ UNCHANGED <<settings, pyjwt, clock, users, issued>>
    /\ UNCHANGED swapVars

CallVerifyPasswordHash(password, password_hash) ==
    /\ call' = [NoCall EXCEPT !.op = "verify_password_hash",
                              !.password = password,
                              !.password_hash = password_hash,
                              !.answer = VerifyPasswordHash(password, password_hash)]
    /\ UNCHANGED <<settings, pyjwt, clock, users, issued>>
    /\ UNCHANGED swapVars

\* The token functions with one set of settings and nothing issued: the
\* swap and listing calls read none of it.
AuthAtRest ==
    /\ settings = [JWT_SECRET_KEY |-> "k1", JWT_REFRESH_SECRET |-> "k2",
                   JWT_EXP |-> 1, JWT_REFRESH_EXP |-> 1]
    /\ pyjwt = "2.x"
    /\ clock = 0
    /\ users = RegisteredUsers
    /\ issued = {}
    /\ call = NoCall

Init ==
    /\ listings = (1 :> ListingRow("u1", "active", MaxVolume))
                  @@ (2 :> ListingRow("u1", "inactive", MaxVolume))
    /\ swaps = << >>
    /\ req = [r \in Reqs |-> NoReq]
    /\ AuthAtRest

\* ------------------------------------------------------ specification

Step(r, M) ==
    \/ \E u \in Proposers, l \in ListingIds, v \in Volumes, msg \in M :
            ProposeReadListing(r, u, l, v, msg)
    \/ ProposeCheckDuplicate(r)
    \/ \E id \in SwapIds : ProposeInsert(r, id)
    \/ ProposeFail(r)
    \/ \E u \in Users, s \in SwapIds, target \in SwapStatus, msg \in M :
            RespondRead(r, u, s, target, msg)
    \/ RespondCommit(r)
    \/ RespondFail(r)
    \/ \E u \in Users, s \in SwapIds : CancelRead(r, u, s)
    \/ CancelCommit(r)
    \/ CancelFail(r)
    \/ \E u \in Users, s \in SwapIds : CompleteRead(r, u, s)
    \/ CompleteFlushAndReadListing(r)
    \/ CompleteCommit(r)
    \/ CompleteFail(r)
    \/ Deliver(r)

\* Calls of any clients, interleaved statement by statement.
Next == \E r \in Reqs : Step(r, NoMessages)

Spec == Init /\ [][Next]_vars

\* Calls made one after another: each runs to its response before the next.
NextSerial == \E r \in SerialReqs : Step(r, NoMessages)

SpecSerial == Init /\ [][NextSerial]_vars

\* Calls made one after another, with and without messages.
NextMessages == \E r \in SerialReqs : Step(r, Messages)

SpecMessages == Init /\ [][NextMessages]_vars

ListingWrites == {"create_listing", "update_listing", "delete_listing"}

ListingStep(r) ==
    \/ \E u \in Owners, id \in NewListingIds, d \in ListingCreateRequests :
            CreateListing(r, u, id, d)
    \/ \E u \in Owners, l \in ListingIds, d \in UpdateDicts : UpdateListing(r, u, l, d)
    \/ \E u \in Owners, l \in ListingIds : DeleteListing(r, u, l)
    \/ \E op \in ListingWrites, u \in Owners, l \in ListingIds :
            ListingCommitFails(r, op, u, l)
    \/ \E l \in ListingIds : GetMatchingListings(r, l)
    \/ Deliver(r)

\* The store before any listing is created.
InitListings ==
    /\ listings = << >>
    /\ swaps = << >>
    /\ req = [r \in Reqs |-> NoReq]
    /\ AuthAtRest

\* Listing calls made one after another.
NextListings == \E r \in SerialReqs : ListingStep(r)

SpecListings == InitListings /\ [][NextListings]_vars

FeedStep(r) ==
    \/ \E u \in Owners, id \in NewListingIds, d \in FeedCreateRequests :
            CreateListing(r, u, id, d)
    \/ \E u \in Owners, l \in ListingIds, st \in UpdateStatuses :
            UpdateListing(r, u, l, [c \in {"status"} |-> st])
    \/ \E u \in Owners, f \in FeedFilters, page \in Pages, page_size \in PageSizes :
            GetFeedListings(r, u, f, page, page_size)
    \/ MinutePasses(r)
    \/ Deliver(r)

\* Listings created and switched off and on, and the feed read, one call
\* after another.
NextFeed == \E r \in SerialReqs : FeedStep(r)

SpecFeed == InitListings /\ [][NextFeed]_vars

\* The volumes a new listing is given and update_listing sets: positive, by
\* the request schemas.
ListingVolumes == 1..MaxVolume

\* Calls of two clients interleaved statement by statement around listing 1:
\* its owner u1 updates its volume and status, creates listing 3, answers
\* and completes swaps; u2 proposes against it and cancels.
VolumeStep(r) ==
    \/ CreateListing(r, "u1", 3,
            [listing_type |-> "supply", energy_type |-> "solar",
             volume |-> MaxVolume, location |-> <<"a", "b">>,
             start_time |-> 0, end_time |-> 1])
    \/ \E v \in ListingVolumes :
            UpdateListing(r, "u1", 1, [c \in {"volume"} |-> v])
    \/ UpdateListing(r, "u1", 1, [c \in {"status"} |-> "active"])
    \/ \E v \in ListingVolumes : ProposeReadListing(r, "u2", 1, v, None)
    \/ ProposeCheckDuplicate(r)
    \/ \E id \in SwapIds : ProposeInsert(r, id)
    \/ \E s \in SwapIds : RespondRead(r, "u1", s, ACCEPTED, None)
    \/ RespondCommit(r)
    \/ \E s \in SwapIds : CancelRead(r, "u2", s)
    \/ CancelCommit(r)
    \/ \E s \in SwapIds : CompleteRead(r, "u1", s)
    \/ CompleteFlushAndReadListing(r)
    \/ CompleteCommit(r)
    \/ Deliver(r)

NextVolume == \E r \in Reqs : VolumeStep(r)

SpecVolume == Init /\ [][NextVolume]_vars

\* The listings swaps are proposed against here; listing 1 is deleted and
\* created again.
CascadeListings == {1, 2}

\* Calls of two clients interleaved statement by statement: u1 deletes
\* listing 1 and creates it again under the same key, u2 tries to delete it,
\* while u2's swaps against listings 1 and 2 are proposed, answered,
\* cancelled and completed.
CascadeStep(r) ==
    \/ CreateListing(r, "u1", 1,
            [listing_type |-> "supply", energy_type |-> "solar",
             volume |-> MaxVolume, location |-> <<"a", "b">>,
             start_time |-> 0, end_time |-> 1])
    \/ \E u \in Owners : DeleteListing(r, u, 1)
    \/ ListingCommitFails(r, "delete_listing", "u1", 1)
    \/ UpdateListing(r, "u1", 2, [c \in {"status"} |-> "active"])
    \/ \E l \in CascadeListings : ProposeReadListing(r, "u2", l, 1, None)
    \/ ProposeCheckDuplicate(r)
    \/ \E id \in SwapIds : ProposeInsert(r, id)
    \/ \E s \in SwapIds : RespondRead(r, "u1", s, ACCEPTED, None)
    \/ RespondCommit(r)
    \/ \E s \in SwapIds : CancelRead(r, "u2", s)
    \/ CancelCommit(r)
    \/ \E s \in SwapIds : CompleteRead(r, "u1", s)
    \/ CompleteFlushAndReadListing(r)
    \/ CompleteCommit(r)
    \/ Deliver(r)

NextCascade == \E r \in Reqs : CascadeStep(r)

SpecCascade == Init /\ [][NextCascade]_vars

\* The service started with any accepted settings and either PyJWT release,
\* one registered user, no token issued.
InitAuth ==
    /\ listings = << >>
    /\ swaps = << >>
    /\ req = [r \in Reqs |-> NoReq]
    /\ settings \in AcceptedSettings
    /\ pyjwt \in PyJWTReleases
    /\ clock = 0
    /\ users = RegisteredUsers
    /\ issued = {}
    /\ call = NoCall

NextAuth ==
    \/ \E d \in {1, MinutesPerDay} : Tick(d)
    \/ \E sub \in Subjects : CreateAccessToken(sub)
    \/ \E sub \in Subjects : CreateRefreshToken(sub)
    \/ \E token \in Tokens : CallVerifyAccessToken(token)
    \/ \E token \in Tokens : CallVerifyRefreshToken(token)
    \/ \E token \in Tokens : CallGetRefreshToken(token)
    \/ \E token \in Tokens : CallGetCurrentUser(token)

SpecAuth == InitAuth /\ [][NextAuth]_vars

\* Sign-up and login calls made one after another, from the one registered
\* user.
InitUsers ==
    /\ listings = << >>
    /\ swaps = << >>
    /\ req = [r \in Reqs |-> NoReq]
    /\ AuthAtRest

NextUsers ==
    \/ \E email \in Emails, password \in SignupPasswords, salt \in Salts,
          id \in Users : CreateUser(email, password, salt, id)
    \/ \E email \in Emails, password \in SignupPasswords :
            CreateUserStoreFails(email, password)
    \/ \E email \in Emails, password \in Plaintexts :
            AuthenticateUser(email, password)

SpecUsers == InitUsers /\ [][NextUsers]_vars

\* The hasher applied to any plaintext and any stored string, and login
\* against a users row holding any stored string.
InitPasswords ==
    /\ listings = << >>
    /\ swaps = << >>
    /\ req = [r \in Reqs |-> NoReq]
    /\ settings = [JWT_SECRET_KEY |-> "k1", JWT_REFRESH_SECRET |-> "k2",
                   JWT_EXP |-> 1, JWT_REFRESH_EXP |-> 1]
    /\ pyjwt = "2.x"
    /\ clock = 0
    /\ \E h \in Digests : users = ("u1" :> UserRow("u1@renex", h))
    /\ issued = {}
    /\ call = NoCall

NextPasswords ==
    \/ \E password \in Plaintexts, salt \in Salts :
            CallGetPasswordHash(password, salt)
    \/ \E password \in Plaintexts, h \in Digests :
            CallVerifyPasswordHash(password, h)
    \/ \E email \in Emails, password \in Plaintexts :
            AuthenticateUser(email, password)

SpecPasswords == InitPasswords /\ [][NextPasswords]_vars

\* ============================================================ claims

Terminal == {COMPLETED, REJECTED, CANCELLED}

AllowedTransitions ==
    {<<PENDING, ACCEPTED>>, <<PENDING, REJECTED>>, <<PENDING, CANCELLED>>,
     <<ACCEPTED, COMPLETED>>, <<ACCEPTED, CANCELLED>>}

SwapOps == {"respond_to_swap", "cancel_swap", "complete_swap"}

\* The call on connection r gets its response in this step.
Responds(r) == req[r].pc # "done" /\ req'[r].pc = "done"

TablesUnchanged == swaps' = swaps /\ listings' = listings

\* C1: calls made one after another never change the status of a swap that
\* is completed, rejected or cancelled.
C1_TerminalIsFinal ==
    [][\A s \in DOMAIN swaps :
          swaps[s].status \in Terminal =>
              s \in DOMAIN swaps' /\ swaps'[s].status = swaps[s].status]_vars

\* A call on a swap in a terminal status has been refused for its status.
C1_Witness ==
    \E r \in Reqs :
        /\ req[r].pc = "done" /\ req[r].op \in SwapOps
        /\ req[r].detail = "wrong_status"
        /\ req[r].swap_id \in DOMAIN swaps
        /\ swaps[req[r].swap_id].status \in Terminal

\* C2: a swap is created pending, and every change of a swap's status made by
\* calls one after another is one of the five allowed steps.
C2_OnlyAllowedTransitions ==
    [][\A s \in DOMAIN swaps' :
          IF s \in DOMAIN swaps
          THEN swaps'[s].status # swaps[s].status =>
                   <<swaps[s].status, swaps'[s].status>> \in AllowedTransitions
          ELSE swaps'[s].status = PENDING]_vars

\* One swap went pending, accepted, completed and another pending, accepted,
\* cancelled.
C2_Witness ==
    \E s, t \in DOMAIN swaps :
        /\ swaps[s].status = COMPLETED
        /\ swaps[t].status = CANCELLED /\ swaps[t].responded_at

RECURSIVE SumVolume(_)
SumVolume(S) ==
    IF S = {} THEN 0
    ELSE LET s == CHOOSE x \in S : TRUE
         IN swaps[s].proposed_volume + SumVolume(S \ {s})

\* The swaps against l on which a complete_swap has committed, and those
\* accepted and not yet completed.
CompletedOn(l) ==
    {s \in DOMAIN swaps : swaps[s].listing_id = l /\ swaps[s].completed_at}

AcceptedOn(l) ==
    {s \in DOMAIN swaps : swaps[s].listing_id = l /\ swaps[s].status = ACCEPTED}

\* The volume every listing is created with here; none of the calls modelled
\* raises it.
InitialVolume(l) == MaxVolume

NoCallInFlight == \A r \in Reqs : req[r].pc \in {"idle", "done"}

\* C3: when the accepted swaps against a listing propose at most its initial
\* volume in total, then after any interleaving of complete_swap calls the
\* listing's volume is the initial volume minus the proposed volumes of the
\* completed swaps, and it is never negative.
C3_VolumeInvariant ==
    \A l \in DOMAIN listings :
        /\ listings[l].volume >= 0
        /\ (NoCallInFlight
             /\ SumVolume(AcceptedOn(l) \cup CompletedOn(l)) <= InitialVolume(l))
            => listings[l].volume = InitialVolume(l) - SumVolume(CompletedOn(l))

\* C4: complete_swap on an accepted swap that proposes more than the
\* listing's current volume is refused and changes neither table.
C4_RecheckAtCompletion ==
    [][\A r \in Reqs :
          (/\ Responds(r) /\ req'[r].op = "complete_swap"
           /\ req'[r].swap_id \in DOMAIN swaps
           /\ swaps[req'[r].swap_id].status = ACCEPTED
           /\ swaps[req'[r].swap_id].recipient_id = req'[r].user_id
           /\ swaps[req'[r].swap_id].listing_id \in DOMAIN listings
           /\ swaps[req'[r].swap_id].proposed_volume >
                  listings[swaps[req'[r].swap_id].listing_id].volume)
          => (req'[r].code # HTTP_200_OK /\ TablesUnchanged)]_vars

\* C5: a complete_swap that returns normally has set the swap completed with
\* completed_at, and the listing's volume to max(0, volume - proposed_volume);
\* the listing's status is completed if that is 0 and otherwise as before.
C5_CompleteEffect ==
    [][\A r \in Reqs :
          (Responds(r) /\ req'[r].op = "complete_swap" /\ req'[r].code = HTTP_200_OK)
          => LET s == req'[r].swap_id
                 l == swaps[s].listing_id
                 d == listings[l].volume - swaps[s].proposed_volume
             IN /\ swaps'[s].status = COMPLETED /\ swaps'[s].completed_at
                /\ listings'[l].volume = (IF d > 0 THEN d ELSE 0)
                /\ listings'[l].status =
                       (IF d > 0 THEN listings[l].status ELSE "completed")]_vars

\* A completed swap of 1 against a listing of 2 left volume 1 and the listing
\* active.
C5_Witness ==
    \E r \in Reqs :
        /\ req[r].pc = "done" /\ req[r].op = "complete_swap"
        /\ req[r].code = HTTP_200_OK
        /\ swaps[req[r].swap_id].proposed_volume = 1
        /\ listings[swaps[req[r].swap_id].listing_id].volume = MaxVolume - 1
        /\ listings[swaps[req[r].swap_id].listing_id].status = "active"

InFlight(r) == req[r].pc \notin {"idle", "done"}

\* C6: complete_swap commits the swap's completion and the listing's new
\* volume and status together or not at all: a call that returns normally has
\* committed both, a call that fails returns a 500 and has changed neither
\* table, no step in between changes a table, and nothing else completes a
\* swap or changes a listing.
C6_CompleteAtomic ==
    [][/\ \A r \in Reqs :
            (req[r].op = "complete_swap" /\ InFlight(r) /\ req'[r] # req[r])
            => LET s == req[r].swap_id
                   l == req[r].listing_id
               IN IF req'[r].pc = "done" /\ req'[r].code = HTTP_200_OK
                  THEN /\ swaps'[s].status = COMPLETED /\ swaps'[s].completed_at
                       /\ "volume" \in req[r].dirty =>
                              listings'[l].volume = req[r].volume
                       /\ "status" \in req[r].dirty =>
                              listings'[l].status = req[r].listing_status
                  ELSE /\ TablesUnchanged
                       /\ req'[r].pc = "done" =>
                              req'[r].code = HTTP_500_INTERNAL_SERVER_ERROR
       /\ (\/ listings' # listings
           \/ \E s \in DOMAIN swaps :
                 s \in DOMAIN swaps' /\ swaps'[s].completed_at # swaps[s].completed_at)
          => \E r \in Reqs :
                /\ req[r].op = "complete_swap" /\ req[r].pc = "commit"
                /\ req'[r].pc = "done" /\ req'[r].code = HTTP_200_OK]_vars

\* A complete_swap failed in the store: the swap is still accepted with
\* completed_at null and the listing has its full volume.
C6_Witness ==
    \E r \in Reqs :
        /\ req[r].pc = "done" /\ req[r].op = "complete_swap"
        /\ req[r].code = HTTP_500_INTERNAL_SERVER_ERROR
        /\ swaps[req[r].swap_id].status = ACCEPTED
        /\ ~swaps[req[r].swap_id].completed_at
        /\ listings[swaps[req[r].swap_id].listing_id].volume = MaxVolume
        /\ listings[swaps[req[r].swap_id].listing_id].status = "active"

Created == DOMAIN swaps' \ DOMAIN swaps

\* C7: with calls made one after another, a create_swap proposing more than
\* the listing's volume gets a 400 and creates no swap, and every swap is
\* created with proposed_volume at most the listing's volume at that moment.
C7_VolumeCheckedAtProposal ==
    [][/\ \A s \in Created :
            swaps'[s].proposed_volume <= listings[swaps'[s].listing_id].volume
       /\ \A r \in Reqs :
            (/\ Responds(r) /\ req'[r].op = "create_swap"
             /\ req'[r].listing_id \in DOMAIN listings
             /\ req'[r].proposed_volume > listings[req'[r].listing_id].volume)
            => (req'[r].code = HTTP_400_BAD_REQUEST /\ swaps' = swaps)]_vars

\* A proposal above the volume of an active listing of another user was
\* refused for its volume.
C7_Witness ==
    \E r \in Reqs :
        /\ req[r].pc = "done" /\ req[r].op = "create_swap"
        /\ req[r].detail = "exceeds_volume"
        /\ req[r].proposed_volume > listings[req[r].listing_id].volume

\* C8: with calls made one after another, a swap is created only against a
\* listing that exists, is active and is not the initiator's; a create_swap
\* on a missing listing gets a 404, on an inactive or own listing a 400, and
\* none of them creates a swap; no swap has initiator_id = recipient_id.
C8_ProposalGuards ==
    [][/\ \A s \in Created :
            LET l == swaps'[s].listing_id
            IN /\ l \in DOMAIN listings
               /\ listings[l].status = "active"
               /\ listings[l].user_id # swaps'[s].initiator_id
       /\ \A r \in Reqs :
            (Responds(r) /\ req'[r].op = "create_swap")
            => LET l == req'[r].listing_id
               IN IF l \notin DOMAIN listings
                  THEN req'[r].code = HTTP_404_NOT_FOUND /\ swaps' = swaps
                  ELSE (\/ listings[l].status # "active"
                        \/ listings[l].user_id = req'[r].user_id)
                       => (req'[r].code = HTTP_400_BAD_REQUEST /\ swaps' = swaps)
       /\ \A s \in DOMAIN swaps' :
            swaps'[s].initiator_id # swaps'[s].recipient_id]_vars

\* The owner of an active listing proposed against it and was refused.
C8_Witness ==
    \E r \in Reqs :
        /\ req[r].pc = "done" /\ req[r].op = "create_swap"
        /\ req[r].detail = "own_listing"
        /\ listings[req[r].listing_id].status = "active"
        /\ listings[req[r].listing_id].user_id = req[r].user_id

\* C9: no initiator has two pending swaps against one listing, also when
\* create_swap calls interleave.
C9_OnePendingPerPair ==
    \A l \in ListingIds, i \in Users : Cardinality(PendingSwapsOf(l, i)) <= 1

Authorized(op, u, row) ==
    IF op = "cancel_swap"
    THEN u \in {row.initiator_id, row.recipient_id}
    ELSE u = row.recipient_id

\* C10: a respond_to_swap or complete_swap by anyone but the swap's recipient,
\* and a cancel_swap by anyone but its initiator or recipient, is refused at
\* once and changes neither table; a step of such a call that changes a table
\* is a step of an authorized caller.
C10_OnlyParticipantsAct ==
    [][\A r \in Reqs :
          /\ (/\ req[r].pc = "idle" /\ req'[r].op \in SwapOps
              /\ req'[r].swap_id \in DOMAIN swaps
              /\ ~Authorized(req'[r].op, req'[r].user_id, swaps[req'[r].swap_id]))
             => /\ req'[r].pc = "done"
                /\ req'[r].code \notin {HTTP_200_OK, HTTP_201_CREATED}
                /\ TablesUnchanged
          /\ (/\ req[r].op \in SwapOps /\ InFlight(r) /\ req'[r] # req[r]
              /\ ~TablesUnchanged)
             => /\ req[r].swap_id \in DOMAIN swaps
                /\ Authorized(req[r].op, req[r].user_id, swaps[req[r].swap_id])]_vars

\* The initiator of a swap called respond_to_swap or complete_swap on it and
\* got a 404.
C10_Witness ==
    \E r \in Reqs :
        /\ req[r].pc = "done" /\ req[r].op \in {"respond_to_swap", "complete_swap"}
        /\ req[r].swap_id \in DOMAIN swaps
        /\ req[r].user_id = swaps[req[r].swap_id].initiator_id
        /\ req[r].code = HTTP_404_NOT_FOUND

\* The swap rows other than s are as before.
OtherSwapsUnchanged(s) ==
    /\ DOMAIN swaps' = DOMAIN swaps
    /\ \A t \in DOMAIN swaps \ {s} : swaps'[t] = swaps[t]

\* C11: respond_to_swap by the recipient on a pending swap with a target other
\* than accepted or rejected gets a 400 and changes nothing; with target
\* accepted or rejected it is not refused, and when it returns normally the
\* swap's status is that target and responded_at is set.
C11_RespondTarget ==
    [][\A r \in Reqs :
          (/\ Responds(r) /\ req'[r].op = "respond_to_swap"
           /\ req'[r].swap_id \in DOMAIN swaps
           /\ swaps[req'[r].swap_id].recipient_id = req'[r].user_id
           /\ swaps[req'[r].swap_id].status = PENDING)
          => LET s == req'[r].swap_id IN
             IF req'[r].status \notin {ACCEPTED, REJECTED}
             THEN /\ req'[r].code = HTTP_400_BAD_REQUEST
                  /\ req'[r].detail = "wrong_target"
                  /\ TablesUnchanged
             ELSE /\ req'[r].code \in {HTTP_200_OK, HTTP_500_INTERNAL_SERVER_ERROR}
                  /\ req'[r].code = HTTP_200_OK =>
                        /\ swaps'[s].status = req'[r].status
                        /\ swaps'[s].status \in {ACCEPTED, REJECTED}
                        /\ swaps'[s].responded_at
                  /\ req'[r].code # HTTP_200_OK => TablesUnchanged]_vars

\* The recipient answered a pending swap with target cancelled and was refused,
\* the swap still pending with responded_at null.
C11_Witness ==
    \E r \in Reqs :
        /\ req[r].pc = "done" /\ req[r].op = "respond_to_swap"
        /\ req[r].detail = "wrong_target" /\ req[r].status = CANCELLED
        /\ swaps[req[r].swap_id].status = PENDING
        /\ ~swaps[req[r].swap_id].responded_at

C13_DistinctDenials ==
    [][\A r \in Reqs :
          (/\ Responds(r) /\ req[r].pc = "idle" /\ req'[r].op \in SwapOps)
          => LET s == req'[r].swap_id IN
             IF s \notin DOMAIN swaps
             THEN req'[r].code = HTTP_404_NOT_FOUND
             ELSE IF ~Authorized(req'[r].op, req'[r].user_id, swaps[s])
             THEN /\ req'[r].code \notin {HTTP_200_OK, HTTP_400_BAD_REQUEST,
                                          HTTP_404_NOT_FOUND}
                  /\ req'[r].detail # "not_found_or_forbidden"
             ELSE req'[r].code = HTTP_400_BAD_REQUEST]_vars

DenialCodes == {HTTP_400_BAD_REQUEST, HTTP_404_NOT_FOUND}

\* C14: a step in which create_swap, respond_to_swap, cancel_swap or
\* complete_swap is refused with a 400 or a 404 changes no swap and no listing,
\* and no step of a call changes a table except the one in which the call
\* returns normally: no call writes before its last guard.
C14_GuardsBeforeWrites ==
    [][/\ \A r \in Reqs :
            (Responds(r) /\ req'[r].code \in DenialCodes) => TablesUnchanged
       /\ ~TablesUnchanged =>
            \E r \in Reqs : /\ Responds(r)
                            /\ req'[r].code \in {HTTP_200_OK, HTTP_201_CREATED}]_vars

\* A call was refused on its second read: create_swap found the initiator's
\* pending swap on the listing.
C14_Witness ==
    \E r \in Reqs :
        /\ req[r].pc = "done" /\ req[r].op = "create_swap"
        /\ req[r].detail = "duplicate_pending"
        /\ Cardinality(PendingSwapsOf(req[r].listing_id, req[r].user_id)) = 1

\* C15: a respond_to_swap that returns normally and carried a non-empty
\* message m leaves the swap's message as o, two newlines, "Response: ", m when
\* the swap had a message o, and as m itself when it had none; without a
\* message the swap's message is as before.
C15_ResponseMessage ==
    [][\A r \in Reqs :
          (/\ Responds(r) /\ req'[r].op = "respond_to_swap"
           /\ req'[r].code = HTTP_200_OK)
          => LET s == req'[r].swap_id
                 o == swaps[s].message
                 m == req[r].message
             IN IF ~Truthy(m) THEN swaps'[s].message = o
                ELSE IF Truthy(o)
                THEN swaps'[s].message =
                        Some(o[1] \o <<TwoNewlines, ResponsePrefix>> \o m[1])
                ELSE swaps'[s].message = m]_vars

MatchCallDone(r) ==
    /\ req[r].pc = "done" /\ req[r].op = "get_matching_listings"
    /\ req[r].code = HTTP_200_OK

OppositePairs == {<<"demand", "supply">>, <<"supply", "demand">>}

\* C16: get_matching_listings on listing L returns exactly the listings M that
\* are active, belong to another user, have the opposite listing_type and the
\* same energy_type as L, and have M.start_time <= L.end_time and
\* M.end_time >= L.start_time.
C16_MatchesExactly ==
    \A r \in Reqs :
        MatchCallDone(r) =>
            LET L == listings[req[r].listing_id] IN
            req[r].result =
                {m \in DOMAIN listings :
                    /\ listings[m].status = "active"
                    /\ listings[m].user_id # L.user_id
                    /\ <<listings[m].listing_type, L.listing_type>> \in OppositePairs
                    /\ listings[m].energy_type = L.energy_type
                    /\ listings[m].start_time <= L.end_time
                    /\ listings[m].end_time >= L.start_time}

\* A match was returned whose window only touches the seed listing's window:
\* it starts where the seed's window ends.
C16_Witness ==
    \E r \in Reqs :
        /\ MatchCallDone(r)
        /\ \E m \in req[r].result :
              listings[m].start_time = listings[req[r].listing_id].end_time

\* C17: whenever get_matching_listings on listing A returns listing B,
\* get_matching_listings on B in the same store state returns A.
C17_MatchingSymmetric ==
    \A r \in Reqs :
        MatchCallDone(r) =>
            \A B \in req[r].result :
                req[r].listing_id \in MatchingListings(listings[B])

\* The token the call was made with was issued as a token of this kind.
IssuedAs(kind, token) == [kind |-> kind, token |-> token] \in issued

\* C18: verifying an access token with verify_access_token, or a refresh token
\* with verify_refresh_token, at the moment it was issued returns the
\* subject it was issued for.
C18_TokenRoundTrip ==
    /\ (/\ call.op = "verify_access_token" /\ IssuedAs("access", call.token)
        /\ call.at = call.token.iat)
       => call.result = Returned(call.token.sub)
    /\ (/\ call.op = "verify_refresh_token" /\ IssuedAs("refresh", call.token)
        /\ call.at = call.token.iat)
       => call.result = Returned(call.token.sub)

VerifyOps ==
    {"verify_access_token", "verify_refresh_token", "get_refresh_token",
     "get_current_user"}

KindOf(op) ==
    IF op \in {"verify_access_token", "get_current_user"} THEN "access"
    ELSE "refresh"

\* What the operation answers to a string that is not a JWT at all.
InvalidAnswer(op) ==
    IF op = "verify_access_token" THEN VerifyAccessToken(Garbage)
    ELSE IF op = "verify_refresh_token" THEN VerifyRefreshToken(Garbage)
    ELSE IF op = "get_refresh_token" THEN GetRefreshToken(Garbage)
    ELSE GetCurrentUser(Garbage)

\* The last call was refused the way the operation refuses an invalid token.
RejectedAsInvalid ==
    /\ call.result.outcome = "HTTPException"
    /\ call.result = InvalidAnswer(call.op)

\* C19: with any accepted settings, verify_refresh_token and get_refresh_token
\* reject a token issued as an access token as invalid, and verify_access_token
\* and get_current_user reject a token issued as a refresh token as invalid.
C19_KindsDoNotSubstitute ==
    /\ (/\ call.op \in {"verify_refresh_token", "get_refresh_token"}
        /\ IssuedAs("access", call.token))
       => RejectedAsInvalid
    /\ (/\ call.op \in {"verify_access_token", "get_current_user"}
        /\ IssuedAs("refresh", call.token))
       => RejectedAsInvalid

\* C20: an access token carries exp = iat + JWT_EXP minutes and a refresh token
\* exp = iat + JWT_REFRESH_EXP days; a token of the right kind presented after
\* its exp is refused, with an answer that differs from the one the same
\* operation gives for an invalid token.
C20_ExpiredIsDistinct ==
    /\ \A i \in issued :
          i.token.exp = i.token.iat +
              (IF i.kind = "access" THEN settings.JWT_EXP
               ELSE settings.JWT_REFRESH_EXP * MinutesPerDay)
    /\ (/\ call.op \in VerifyOps /\ IssuedAs(KindOf(call.op), call.token)
        /\ call.at > call.token.exp)
       => /\ call.result.outcome = "HTTPException"
          /\ call.result # InvalidAnswer(call.op)

\* C21: get_refresh_token with a refresh token that was issued for a subject
\* and has not expired returns a newly minted access token and a newly minted
\* refresh token, each of which its own verifier verifies to that subject.
C21_RefreshMintsPair ==
    (/\ call.op = "get_refresh_token" /\ IssuedAs("refresh", call.token)
     /\ call.at <= call.token.exp /\ clock = call.at)
    => /\ call.result = Returned(call.token.sub)
       /\ call.access_token = AccessToken(call.token.sub, call.at)
       /\ call.refresh_token = RefreshToken(call.token.sub, call.at)
       /\ VerifyAccessToken(call.access_token) = Returned(call.token.sub)
       /\ VerifyRefreshToken(call.refresh_token) = Returned(call.token.sub)

\* C23: authenticate_user changes no table and has three outcomes: the
\* no-such-user denial when no user has the email, the bad-credentials denial
\* when the password does not verify against the stored hash, and otherwise an
\* access and a refresh token whose subjects are the user's id.
C23_AuthenticateOutcomes ==
    [][call'.op = "authenticate_user"
       => /\ users' = users
          /\ IF UserByEmail(call'.email) = {}
             THEN call'.result = Raised(HTTP_401_UNAUTHORIZED, "User doesn't exist")
             ELSE LET id == CHOOSE i \in UserByEmail(call'.email) : TRUE IN
                  IF VerifyPasswordHash(call'.password, users[id].password_hxh)
                        = "True"
                  THEN /\ call'.result = Returned(id)
                       /\ call'.access_token.sub = id
                       /\ call'.refresh_token.sub = id
                  ELSE call'.result = Raised(HTTP_401_UNAUTHORIZED,
                                             "Invalid credentials provided")]_vars

\* The users table gained exactly the row id, for the email and the password
\* of the call.
PersistedOne(id, email, password) ==
    /\ id \notin DOMAIN users
    /\ DOMAIN users' = DOMAIN users \cup {id}
    /\ \A i \in DOMAIN users : users'[i] = users[i]
    /\ users'[id].email = email
    /\ VerifyPasswordHash(password, users'[id].password_hxh) = "True"

\* C24: a create_user with an email no user has that persists anything persists
\* exactly one new user, holding the hash of the given password, and returns
\* success for that user; a create_user that returns success has persisted
\* the user; and a create_user that returns a failure has persisted nothing.
C24_CreateUserPersists ==
    [][call'.op = "create_user"
       => /\ (UserByEmail(call'.email) = {}
              /\ (users' # users \/ call'.result.outcome = "returned"))
             => \E id \in Users :
                    /\ PersistedOne(id, call'.email, call'.password)
                    /\ call'.result = Returned(id)
          /\ call'.result.outcome # "returned" => users' = users]_vars

\* C25: create_user with an email that belongs to a user persists nothing and
\* raises an error whose status is neither the one of an infrastructure
\* failure nor the one of an authentication failure.
C25_DuplicateEmailConflict ==
    [][(call'.op = "create_user" /\ UserByEmail(call'.email) # {})
       => /\ users' = users
          /\ call'.result.outcome = "HTTPException"
          /\ call'.result.status_code
                \notin {HTTP_500_INTERNAL_SERVER_ERROR, HTTP_401_UNAUTHORIZED}]_vars

\* C26: get_current_user returns the principal of the token's subject when the
\* token was issued as an access token, has not expired and its subject is a
\* user; in every other case it raises the 401 denial.
C26_CurrentPrincipal ==
    call.op = "get_current_user"
    => IF /\ IssuedAs("access", call.token) /\ call.at <= call.token.exp
          /\ call.token.sub \in DOMAIN users
       THEN call.result = Returned(call.token.sub)
       ELSE /\ call.result.outcome = "HTTPException"
            /\ call.result.status_code = HTTP_401_UNAUTHORIZED

C28_MalformedDigestIsNonMatch ==
    /\ (call.op = "verify_password_hash"
        /\ call.password_hash \in MalformedDigests)
       => call.answer = "False"
    /\ (/\ call.op = "authenticate_user"
        /\ \E id \in UserByEmail(call.email) :
              users[id].password_hxh \in MalformedDigests)
       => call.result = Raised(HTTP_401_UNAUTHORIZED,
                               "Invalid credentials provided")

\* The pattern occurs in the text, letters compared without case.
ContainsIgnoringCase(text, pattern) ==
    \E i \in 0..(Len(text) - Len(pattern)) :
        \A k \in 1..Len(pattern) : Lower(pattern[k]) = Lower(text[i + k])

\* The listings the feed of u under the filters f is about.
FeedEligible(u, f) ==
    {l \in DOMAIN listings :
        /\ listings[l].user_id # u
        /\ listings[l].status = "active"
        /\ f.listing_type # "" => listings[l].listing_type = f.listing_type
        /\ f.energy_type # "" => listings[l].energy_type = f.energy_type
        /\ Truthy(f.location)
              => ContainsIgnoringCase(listings[l].location, f.location[1])}

\* The ways to list the rows of S, each once, the one inserted later first.
NewestFirst(S) ==
    {rows \in [1..Cardinality(S) -> S] :
        /\ \A i, j \in 1..Cardinality(S) : i # j => rows[i] # rows[j]
        /\ \A i, j \in 1..Cardinality(S) :
              i < j => listings[rows[i]].inserted_at >= listings[rows[j]].inserted_at}

\* C29: the feed returned to u holds only active listings of other users that
\* pass every filter given, newest created first, the page_size rows from
\* offset (page - 1) * page_size on, and total is the number of all listings
\* that pass.
C29_FeedPage ==
    \A r \in Reqs :
        (req[r].pc = "done" /\ req[r].op = "get_feed_listings")
        => LET eligible == FeedEligible(req[r].user_id, req[r].filters)
               offset == (req[r].page - 1) * req[r].page_size
           IN /\ req[r].total = Cardinality(eligible)
              /\ \E rows \in NewestFirst(eligible) :
                    req[r].feed = LimitOffset(rows, req[r].page_size, offset)

\* C30: in every reachable state, whatever listing creations, listing
\* updates, proposals, responses, cancellations and completions have run and
\* however their statements interleaved, every listing's volume is at least 0.
C30_VolumeNeverNegative == \A l \in DOMAIN listings : listings[l].volume >= 0

\* Listing 3 was created, one swap against listing 1 was cancelled, another
\* was accepted and its completion, the call just answered, left listing 1
\* with volume 0.
C30_Witness ==
    /\ 3 \in DOMAIN listings
    /\ listings[1].volume = 0
    /\ \E s \in DOMAIN swaps :
          swaps[s].status = CANCELLED /\ swaps[s].listing_id = 1
    /\ \E r \in Reqs :
          /\ req[r].pc = "done" /\ req[r].op = "complete_swap"
          /\ req[r].code = HTTP_200_OK
          /\ swaps[req[r].swap_id].status = COMPLETED
          /\ swaps[req[r].swap_id].listing_id = 1

\* The timestamps a swap row may carry in its status.
TimestampsFollowStatus(row) ==
    /\ row.status = PENDING => ~row.responded_at
    /\ row.completed_at => row.status = COMPLETED

\* C31: in every reachable state a pending swap has responded_at null and a
\* swap has completed_at set only if its status is completed; a cancel_swap
\* that returns normally leaves responded_at and completed_at as they were.
C31_TimestampsFollowStatus ==
    [][/\ \A s \in DOMAIN swaps' : TimestampsFollowStatus(swaps'[s])
       /\ \A r \in Reqs :
            (/\ Responds(r) /\ req'[r].op = "cancel_swap"
             /\ req'[r].code = HTTP_200_OK)
            => LET s == req'[r].swap_id
               IN /\ swaps'[s].responded_at = swaps[s].responded_at
                  /\ swaps'[s].completed_at = swaps[s].completed_at]_vars

\* The columns of a swap that bind it to its listing and its parties.
Binding(row) ==
    <<row.listing_id, row.initiator_id, row.recipient_id, row.proposed_volume>>

\* C32: a swap is created with recipient_id the owner of its listing at that
\* instant, status pending, proposed_at set, responded_at and completed_at
\* null; no later step of respond_to_swap, cancel_swap, complete_swap or
\* update_listing changes its listing_id, initiator_id, recipient_id or
\* proposed_volume.
C32_BoundAtProposal ==
    [][/\ \A s \in Created :
            /\ swaps'[s].listing_id \in DOMAIN listings
            /\ swaps'[s].recipient_id = listings[swaps'[s].listing_id].user_id
            /\ swaps'[s].status = PENDING
            /\ swaps'[s].proposed_at
            /\ ~swaps'[s].responded_at
            /\ ~swaps'[s].completed_at
       /\ \A s \in DOMAIN swaps :
            s \in DOMAIN swaps' /\ Binding(swaps'[s]) = Binding(swaps[s])]_vars

\* A swap was answered and cancelled, another was completed, and the owner
\* has just updated the listing: both swaps are still bound to listing 1,
\* from u2 to its owner u1, with a volume u2 proposed.
C32_Witness ==
    \E s, t \in DOMAIN swaps, r \in Reqs :
        /\ swaps[s].status = CANCELLED /\ swaps[s].responded_at
        /\ swaps[t].status = COMPLETED
        /\ req[r].pc = "done" /\ req[r].op = "update_listing"
        /\ req[r].code = HTTP_200_OK
        /\ \A x \in {s, t} :
              /\ swaps[x].listing_id = 1 /\ swaps[x].initiator_id = "u2"
              /\ swaps[x].recipient_id = listings[1].user_id
              /\ swaps[x].proposed_volume \in ListingVolumes

\* C33: in every reachable state, after any listing and swap operations, a
\* listing whose volume is 0 has status completed.
C33_ZeroVolumeIsCompleted ==
    \A l \in DOMAIN listings :
        listings[l].volume = 0 => listings[l].status = "completed"

\* C34: when calls on one swap interleave statement by statement, every
\* committed change of the swap's status is one of the five allowed
\* transitions, and a status that is completed, rejected or cancelled is never
\* overwritten by a call that read an earlier status.
C34_InterleavedTransitions ==
    [][\A r \in Reqs :
          (req[r].op \in SwapOps /\ InFlight(r) /\ req'[r] # req[r]
           /\ req[r].swap_id \in DOMAIN swaps)
          => LET s == req[r].swap_id
             IN swaps'[s].status # swaps[s].status
                => /\ swaps[s].status \notin Terminal
                   /\ <<swaps[s].status, swaps'[s].status>> \in AllowedTransitions]_vars

\* The swaps against l whose status is completed.
EndedCompletedOn(l) ==
    {s \in DOMAIN swaps : swaps[s].listing_id = l /\ swaps[s].status = COMPLETED}

\* C35: each swap reduces its listing's volume at most once, by at most its
\* proposed_volume, and only a swap that ends completed reduces it: under any
\* interleaving of calls, what a listing has lost of its initial volume is at
\* most the sum of the proposed volumes of its completed swaps.
C35_ReducedAtMostOnce ==
    \A l \in DOMAIN listings :
        InitialVolume(l) - listings[l].volume <= SumVolume(EndedCompletedOn(l))

\* C36: after any sequence of create_listing and update_listing calls every
\* listing has start_time < end_time, also after updates that set only one of
\* the two; a call refused for its time range gets a 400 and changes nothing.
C36_StartBeforeEnd ==
    [][/\ \A l \in DOMAIN listings' :
            listings'[l].start_time < listings'[l].end_time
       /\ \A r \in Reqs :
            (Responds(r) /\ req'[r].op \in {"create_listing", "update_listing"}
             /\ req'[r].code = HTTP_400_BAD_REQUEST)
            => (req'[r].detail = "bad_time_range" /\ TablesUnchanged)]_vars

\* The owner's update of a listing was refused for its time range: the
\* listing still has its window from MaxTime - 1 to MaxTime.
C36_Witness ==
    \E r \in Reqs :
        /\ req[r].pc = "done" /\ req[r].op = "update_listing"
        /\ req[r].detail = "bad_time_range"
        /\ req[r].listing_id \in DOMAIN listings
        /\ listings[req[r].listing_id].user_id = req[r].user_id
        /\ listings[req[r].listing_id].start_time = MaxTime - 1
        /\ listings[req[r].listing_id].end_time = MaxTime

\* The swaps table without the swaps that reference listing l.
WithoutSwapsOf(l) ==
    [s \in {t \in DOMAIN swaps : swaps[t].listing_id # l} |-> swaps[s]]

\* C37: delete_listing by anyone but the listing's owner is refused and
\* changes nothing; a delete_listing that returns normally has removed the
\* listing and, in the same commit, every swap that references it, and
\* nothing else; a listing disappears only in such a step; and every swap's
\* listing_id is the key of an existing listing.
C37_DeleteCascades ==
    [][/\ \A r \in Reqs :
            (Responds(r) /\ req'[r].op = "delete_listing")
            => LET l == req'[r].listing_id IN
               IF l \notin DOMAIN listings
                  \/ listings[l].user_id # req'[r].user_id
               THEN /\ req'[r].code = HTTP_404_NOT_FOUND
                    /\ TablesUnchanged
               ELSE IF req'[r].code = HTTP_200_OK
               THEN /\ listings' = [k \in DOMAIN listings \ {l} |-> listings[k]]
                    /\ swaps' = WithoutSwapsOf(l)
               ELSE TablesUnchanged
       /\ \A l \in DOMAIN listings \ DOMAIN listings' :
            \E r \in Reqs :
                /\ Responds(r) /\ req'[r].op = "delete_listing"
                /\ req'[r].listing_id = l
                /\ req'[r].user_id = listings[l].user_id
       /\ \A s \in DOMAIN swaps' : swaps'[s].listing_id \in DOMAIN listings']_vars

\* u1 has just deleted listing 1 while u2's cancel_swap of a swap against it
\* was in flight: the swap that call read is gone, no swap references
\* listing 1, and a swap against listing 2 is still there.
C37_Witness ==
    \E r, q \in Reqs :
        /\ req[r].pc = "done" /\ req[r].op = "delete_listing"
        /\ req[r].code = HTTP_200_OK /\ req[r].listing_id = 1
        /\ req[q].op = "cancel_swap" /\ req[q].pc = "commit"
        /\ req[q].swap_id \notin DOMAIN swaps
        /\ 1 \notin DOMAIN listings
        /\ \E s \in DOMAIN swaps : swaps[s].listing_id = 2
        /\ \A s \in DOMAIN swaps : swaps[s].listing_id # 1

\* The columns of a listing that complete_swap does not assign.
OtherColumns(listing) ==
    [c \in DOMAIN listing \ {"volume", "status"} |-> listing[c]]

\* C38: no step of create_swap, respond_to_swap or cancel_swap changes a
\* listing; a step of complete_swap changes at most the volume and the status
\* of the listing its swap references; create_swap changes no swap that
\* exists, and a step of respond_to_swap, cancel_swap or complete_swap
\* changes no swap but its own, also when the listing's volume comes to 0.
C38_TouchOnlyOwn ==
    [][\A r \in Reqs :
          (req'[r] # req[r] /\ req[r].pc # "done")
          => LET op == req'[r].op
                 s == req'[r].swap_id
             IN /\ op \in {"create_swap", "respond_to_swap", "cancel_swap"}
                   => listings' = listings
                /\ op = "complete_swap"
                   => /\ DOMAIN listings' = DOMAIN listings
                      /\ \A l \in DOMAIN listings :
                            /\ OtherColumns(listings'[l]) = OtherColumns(listings[l])
                            /\ listings'[l] # listings[l]
                               => s \in DOMAIN swaps /\ swaps[s].listing_id = l
                /\ op = "create_swap"
                   => /\ \A t \in DOMAIN swaps :
                            t \in DOMAIN swaps' /\ swaps'[t] = swaps[t]
                      /\ Cardinality(Created) <= 1
                /\ op \in SwapOps => OtherSwapsUnchanged(s)]_vars

\* complete_swap has just brought a listing's volume to 0 and its status to
\* completed, and another swap against that listing is still pending.
C38_Witness ==
    \E r \in Reqs, t \in DOMAIN swaps :
        /\ req[r].pc = "done" /\ req[r].op = "complete_swap"
        /\ req[r].code = HTTP_200_OK
        /\ t # req[r].swap_id
        /\ swaps[t].listing_id = swaps[req[r].swap_id].listing_id
        /\ swaps[t].status = PENDING
        /\ swaps[req[r].swap_id].status = COMPLETED
        /\ listings[swaps[t].listing_id].volume = 0
        /\ listings[swaps[t].listing_id].status = "completed"
====
